---- MODULE Spec2Model ----
(***************************************************************************)
(* Model of the C-source summariser: utils.py (strip_comments, split_args) *)
(* and parser_lib.py (_parse_with_regex, parse_all).                       *)
(*                                                                         *)
(* A text is a sequence of one-character strings.  A position p is the     *)
(* number of characters already consumed (Python's 0-based index), so the  *)
(* character at position p is text[p + 1].                                 *)
(***************************************************************************)
EXTENDS Integers, Sequences, FiniteSets, TLC

(***************************************************************************)
(* Character classes of Python's re module, restricted to ASCII.           *)
(***************************************************************************)
Lower == {"a","b","c","d","e","f","g","h","i","j","k","l","m",
          "n","o","p","q","r","s","t","u","v","w","x","y","z"}
Upper == {"A","B","C","D","E","F","G","H","I","J","K","L","M",
          "N","O","P","Q","R","S","T","U","V","W","X","Y","Z"}
Digit == {"0","1","2","3","4","5","6","7","8","9"}
\* [A-Za-z_]
IdentStart == Lower \cup Upper \cup {"_"}
\* \w
WordCh == IdentStart \cup Digit
\* the control characters 11 and 28..31 (vertical tab and the file, group,
\* record and unit separators), written raw: a string has no escape for them
VT == ""
FS == ""
GS == ""
RS == ""
US == ""
\* \s, and the characters str.strip() / str.split() treat as whitespace
SpaceCh == {" ", "\t", "\n", "\r", "\f", VT, FS, GS, RS, US}
\* the characters str.splitlines() breaks a line at (the unit separator is
\* whitespace but no line break)
LineBreak == {"\n", "\r", "\f", VT, FS, GS, RS}
\* [\w \*\(\)]
RetCh == WordCh \cup {" ", "*", "(", ")"}

(***************************************************************************)
(* Generic helpers on texts.  Scans over the characters of a text halve    *)
(* their range, so that the evaluation never nests deeper than the         *)
(* logarithm of the text's length.                                         *)
(***************************************************************************)
\* text[a:b] of Python (0-based, b exclusive)
Slice(text, a, b) == IF b <= a THEN << >> ELSE SubSeq(text, a + 1, b)

\* the first index i in a..b with (text[i] \in S) = want, 0 if none
RECURSIVE FirstHit(_, _, _, _, _)
FirstHit(text, S, want, a, b) ==
    IF a > b THEN 0
    ELSE IF a = b THEN (IF (text[a] \in S) = want THEN a ELSE 0)
    ELSE LET mid  == (a + b) \div 2
             left == FirstHit(text, S, want, a, mid)
         IN  IF left # 0 THEN left ELSE FirstHit(text, S, want, mid + 1, b)

\* the last index i in a..b with (text[i] \in S) = want, 0 if none
RECURSIVE LastHit(_, _, _, _, _)
LastHit(text, S, want, a, b) ==
    IF a > b THEN 0
    ELSE IF a = b THEN (IF (text[a] \in S) = want THEN a ELSE 0)
    ELSE LET mid   == (a + b) \div 2
             right == LastHit(text, S, want, mid + 1, b)
         IN  IF right # 0 THEN right ELSE LastHit(text, S, want, a, mid)

\* index (1-based) of the first element of S in text at or after i, 0 if none
FirstIn(text, S, i) == FirstHit(text, S, TRUE, i, Len(text))
\* index (1-based) of the last element of S in text, 0 if none
LastIn(text, S) == LastHit(text, S, TRUE, 1, Len(text))

\* str.strip(chars): both ends
StripChars(text, S) ==
    LET a == FirstHit(text, S, FALSE, 1, Len(text))
    IN  IF a = 0 THEN << >>
        ELSE SubSeq(text, a, LastHit(text, S, FALSE, 1, Len(text)))
\* str.strip(): both ends, whitespace
Strip(text) == StripChars(text, SpaceCh)
\* str.lstrip()
LStrip(text) ==
    LET a == FirstHit(text, SpaceCh, FALSE, 1, Len(text))
    IN  IF a = 0 THEN << >> ELSE SubSeq(text, a, Len(text))

\* str.lower() on ASCII letters
UpperSeq == <<"A","B","C","D","E","F","G","H","I","J","K","L","M",
              "N","O","P","Q","R","S","T","U","V","W","X","Y","Z">>
LowerSeq == <<"a","b","c","d","e","f","g","h","i","j","k","l","m",
              "n","o","p","q","r","s","t","u","v","w","x","y","z">>
LowerOf(c) ==
    IF c \in Upper THEN LowerSeq[CHOOSE i \in 1..Len(UpperSeq) : UpperSeq[i] = c] ELSE c
ToLower(text) == [i \in 1..Len(text) |-> LowerOf(text[i])]

\* str.splitlines(): the lines without their line breaks; no empty last line;
\* a carriage return followed by a line feed is one line break
RECURSIVE SplitLines(_)
SplitLines(text) ==
    IF text = << >> THEN << >>
    ELSE LET j == FirstIn(text, LineBreak, 1)
             k == IF j > 0 /\ j < Len(text) /\ text[j] = "\r" /\ text[j + 1] = "\n"
                  THEN j + 1 ELSE j
         IN  IF j = 0 THEN << text >>
             ELSE << SubSeq(text, 1, j - 1) >>
                  \o SplitLines(SubSeq(text, k + 1, Len(text)))

\* str.split() with no argument: the maximal runs of non-whitespace
RECURSIVE SplitWords(_)
SplitWords(text) ==
    LET t == LStrip(text)
    IN  IF t = << >> THEN << >>
        ELSE LET j == FirstIn(t, SpaceCh, 1)
             IN  IF j = 0 THEN << t >>
                 ELSE << SubSeq(t, 1, j - 1) >>
                      \o SplitWords(SubSeq(t, j, Len(t)))

\* ' '.join(words)
RECURSIVE JoinSp(_)
JoinSp(words) ==
    IF words = << >> THEN << >>
    ELSE IF Len(words) = 1 THEN words[1]
    ELSE words[1] \o << " " >> \o JoinSp(Tail(words))

(***************************************************************************)
(* A backtracking matcher for the regular expressions the program uses.    *)
(* A pattern is a sequence of items, tried in Python's priority order:     *)
(*   cls: a character class (s, or its complement when neg) repeated       *)
(*        min..1 times, or min..unbounded when many; lazy or greedy;       *)
(*   lit: a literal word;                                                  *)
(*   bol, eol: ^ and $ under re.MULTILINE;                                 *)
(*   opt: a greedy optional group made of the n items that follow.         *)
(***************************************************************************)
One(S)      == [t |-> "cls", s |-> S, neg |-> FALSE, min |-> 1, many |-> FALSE, lazy |-> FALSE]
Star(S)     == [t |-> "cls", s |-> S, neg |-> FALSE, min |-> 0, many |-> TRUE,  lazy |-> FALSE]
Plus(S)     == [t |-> "cls", s |-> S, neg |-> FALSE, min |-> 1, many |-> TRUE,  lazy |-> FALSE]
LazyPlus(S) == [t |-> "cls", s |-> S, neg |-> FALSE, min |-> 1, many |-> TRUE,  lazy |-> TRUE]
\* .*? : any character but those of S
LazyStarNot(S) == [t |-> "cls", s |-> S, neg |-> TRUE, min |-> 0, many |-> TRUE, lazy |-> TRUE]
Lit(word)   == [t |-> "lit", w |-> word]
Bol         == [t |-> "bol"]
Eol         == [t |-> "eol"]
Opt(n)      == [t |-> "opt", n |-> n]

Fail == [ok |-> FALSE, ends |-> << >>]

\* how many consecutive characters from position p the item can take
RunLen(it, text, p) ==
    IF ~it.many
    THEN IF p < Len(text) /\ (text[p + 1] \in it.s) # it.neg THEN 1 ELSE 0
    ELSE LET miss == FirstHit(text, it.s, it.neg, p + 1, Len(text))
         IN  IF miss = 0 THEN Len(text) - p ELSE miss - 1 - p

LitAt(word, text, p) ==
    /\ p + Len(word) <= Len(text)
    /\ \A i \in 1..Len(word) : text[p + i] = word[i]

Pad(n, p) == [i \in 1..n |-> p]

\* MatchFrom: items k.. matched at position p; ends[j] is the position after
\* item k + j - 1.
\* TryCounts: item k repeated n times for the first n of a..b, in the item's
\* order (lazy: the fewest first; greedy: the most first), that lets the rest
\* of the pattern match.
RECURSIVE MatchFrom(_, _, _, _), TryCounts(_, _, _, _, _, _)
MatchFrom(items, k, text, p) ==
    IF k > Len(items) THEN [ok |-> TRUE, ends |-> << >>]
    ELSE LET it == items[k]
         IN  CASE it.t = "bol" ->
                    IF p = 0 \/ text[p] = "\n"
                    THEN LET r == MatchFrom(items, k + 1, text, p)
                         IN  IF r.ok THEN [ok |-> TRUE, ends |-> << p >> \o r.ends] ELSE Fail
                    ELSE Fail
               [] it.t = "eol" ->
                    IF p = Len(text) \/ text[p + 1] = "\n"
                    THEN LET r == MatchFrom(items, k + 1, text, p)
                         IN  IF r.ok THEN [ok |-> TRUE, ends |-> << p >> \o r.ends] ELSE Fail
                    ELSE Fail
               [] it.t = "lit" ->
                    IF LitAt(it.w, text, p)
                    THEN LET r == MatchFrom(items, k + 1, text, p + Len(it.w))
                         IN  IF r.ok
                             THEN [ok |-> TRUE, ends |-> << p + Len(it.w) >> \o r.ends]
                             ELSE Fail
                    ELSE Fail
               [] it.t = "opt" ->
                    LET with == MatchFrom(items, k + 1, text, p)
                    IN  IF with.ok THEN [ok |-> TRUE, ends |-> << p >> \o with.ends]
                        ELSE LET r == MatchFrom(items, k + 1 + it.n, text, p)
                             IN  IF r.ok
                                 THEN [ok |-> TRUE, ends |-> Pad(it.n + 1, p) \o r.ends]
                                 ELSE Fail
               [] OTHER -> TryCounts(items, k, text, p, it.min, RunLen(it, text, p))

TryCounts(items, k, text, p, a, b) ==
    IF a > b THEN Fail
    ELSE IF a = b
    THEN LET r == MatchFrom(items, k + 1, text, p + a)
         IN  IF r.ok THEN [ok |-> TRUE, ends |-> << p + a >> \o r.ends] ELSE Fail
    ELSE LET mid   == (a + b) \div 2
             first == IF items[k].lazy THEN TryCounts(items, k, text, p, a, mid)
                      ELSE TryCounts(items, k, text, p, mid + 1, b)
         IN  IF first.ok THEN first
             ELSE IF items[k].lazy THEN TryCounts(items, k, text, p, mid + 1, b)
             ELSE TryCounts(items, k, text, p, a, mid)

NoMatch == [ok |-> FALSE, start |-> 0, end |-> 0, ends |-> << >>]

\* the match at the first start position of a..b where the pattern matches
RECURSIVE SearchIn(_, _, _, _)
SearchIn(items, text, a, b) ==
    IF a > b THEN NoMatch
    ELSE IF a = b
    THEN LET r == MatchFrom(items, 1, text, a)
         IN  IF r.ok
             THEN [ok |-> TRUE, start |-> a, end |-> r.ends[Len(r.ends)], ends |-> r.ends]
             ELSE NoMatch
    ELSE LET mid  == (a + b) \div 2
             left == SearchIn(items, text, a, mid)
         IN  IF left.ok THEN left ELSE SearchIn(items, text, mid + 1, b)

\* pattern.search(text, pos): the leftmost match starting at or after pos
Search(items, text, pos) == SearchIn(items, text, pos, Len(text))

\* the text of the group spanning items a..b of match m
Group(text, m, a, b) ==
    Slice(text, IF a = 1 THEN m.start ELSE m.ends[a - 1], m.ends[b])

\* re.finditer: the non-overlapping matches, left to right (every pattern of
\* the program matches at least one character, so the scan resumes at m.end)
RECURSIVE FindIter(_, _, _)
FindIter(items, text, pos) ==
    LET m == Search(items, text, pos)
    IN  IF ~m.ok THEN << >> ELSE << m >> \o FindIter(items, text, m.end)

\* re.sub(pattern, '', text): the text between the matches
RECURSIVE SubEmpty(_, _, _)
SubEmpty(items, text, pos) ==
    LET m == Search(items, text, pos)
    IN  IF ~m.ok THEN Slice(text, pos, Len(text))
        ELSE Slice(text, pos, m.start) \o SubEmpty(items, text, m.end)

\* read_file: open(path, 'r').read() returns the file's text with every line
\* ending "\r\n" and every lone "\r" turned into "\n"
RECURSIVE Newlines(_, _, _)
Newlines(content, a, b) ==
    IF a > b THEN << >>
    ELSE IF a = b
    THEN IF content[a] = "\r" THEN << "\n" >>
         ELSE IF content[a] = "\n" /\ a > 1 /\ content[a - 1] = "\r" THEN << >>
         ELSE << content[a] >>
    ELSE LET mid == (a + b) \div 2
         IN  Newlines(content, a, mid) \o Newlines(content, mid + 1, b)
read_file(content) == Newlines(content, 1, Len(content))

(***************************************************************************)
(* utils.strip_comments                                                    *)
(***************************************************************************)
\* r'/\*.*?\*/' with re.DOTALL
pattern_block == << One({"/"}), One({"*"}), LazyStarNot({}), One({"*"}), One({"/"}) >>
\* r'//.*?$' with re.MULTILINE
pattern_line == << One({"/"}), One({"/"}), LazyStarNot({"\n"}), Eol >>

source_no_block(source) == SubEmpty(pattern_block, source, 0)

\* a variant that forgets the second pass (line comments stay)
strip_comments_blocks_only(source) == source_no_block(source)

strip_comments(source) == SubEmpty(pattern_line, source_no_block(source), 0)

(***************************************************************************)
(* utils.split_args                                                        *)
(***************************************************************************)
\* a variant that splits at every comma, whatever the depth
SplitStepEveryComma(arg_text, st) ==
    LET c == arg_text[st.i]
    IN  IF c = ","
        THEN [i |-> st.i + 1, args |-> Append(st.args, Strip(st.current)),
              depth |-> st.depth, current |-> << >>]
        ELSE [i |-> st.i + 1, args |-> st.args, depth |-> st.depth,
              current |-> Append(st.current, c)]

\* one iteration of the for loop over the characters; i is the index of c
SplitStep(arg_text, st) ==
    LET c == arg_text[st.i]
    IN  IF c = "," /\ st.depth = 0
        THEN [i |-> st.i + 1, args |-> Append(st.args, Strip(st.current)),
              depth |-> st.depth, current |-> << >>]
        ELSE [i |-> st.i + 1, args |-> st.args,
              depth |-> IF c = "(" THEN st.depth + 1
                        ELSE IF c = ")" THEN st.depth - 1
                        ELSE st.depth,
              current |-> Append(st.current, c)]

\* at most n iterations of the for loop from state st
RECURSIVE SplitLoop(_, _, _)
SplitLoop(arg_text, n, st) ==
    IF n = 0 \/ st.i > Len(arg_text) THEN st
    ELSE IF n = 1 THEN SplitStep(arg_text, st)
    ELSE SplitLoop(arg_text, n - n \div 2, SplitLoop(arg_text, n \div 2, st))

\* naive split: last token is name, rest is type  (arg.rsplit(' ', 1))
split_type_name(arg) ==
    LET j == LastIn(arg, {" "})
    IN  IF j = 0 THEN [raw |-> arg, type |-> arg, name |-> << >>]
        ELSE [raw |-> arg,
              type |-> Strip(SubSeq(arg, 1, j - 1)),
              name |-> Strip(SubSeq(arg, j + 1, Len(arg)))]

Void == <<"v","o","i","d">>

split_args(arg_text0) ==
    LET arg_text == Strip(arg_text0)
    IN  IF arg_text = << >> \/ ToLower(arg_text) = Void THEN << >>
        ELSE LET st   == SplitLoop(arg_text, Len(arg_text),
                                   [i |-> 1, args |-> << >>, depth |-> 0,
                                    current |-> << >>])
                 args == IF Strip(st.current) # << >>
                         THEN Append(st.args, Strip(st.current)) ELSE st.args
             IN  [k \in 1..Len(args) |-> split_type_name(args[k])]

(***************************************************************************)
(* parser_lib._parse_with_regex: the patterns                              *)
(***************************************************************************)
W_define  == <<"d","e","f","i","n","e">>
W_typedef == <<"t","y","p","e","d","e","f">>
W_enum    == <<"e","n","u","m">>
W_struct  == <<"s","t","r","u","c","t">>

\* r'^\s*#\s*define\s+([A-Za-z_]\w*)\s+(.*?)\s*$' with re.MULTILINE
macro_head == << Bol, Star(SpaceCh), One({"#"}), Star(SpaceCh), Lit(W_define),
                 Plus(SpaceCh) >>
macro_pattern == macro_head
                 \o << One(IdentStart), Star(WordCh), Plus(SpaceCh),
                       LazyStarNot({"\n"}), Star(SpaceCh), Eol >>

\* the tail shared by the two typedef patterns:  \{(.*?)\}\s*([A-Za-z_]\w*)\s*;
typedef_tail == << One({"{"}), LazyStarNot({}), One({"}"}), Star(SpaceCh),
                   One(IdentStart), Star(WordCh), Star(SpaceCh), One({";"}) >>

\* r'typedef\s+enum\s*(?:\w*\s*)?\{(.*?)\}\s*([A-Za-z_]\w*)\s*;' with re.S
enum_head == << Lit(W_typedef), Plus(SpaceCh), Lit(W_enum), Star(SpaceCh), Opt(2),
                Star(WordCh), Star(SpaceCh) >>
enum_pattern == enum_head \o typedef_tail

\* r'typedef\s+struct\s*(?:[A-Za-z_]\w*\s*)?\{(.*?)\}\s*([A-Za-z_]\w*)\s*;' with re.S
struct_head == << Lit(W_typedef), Plus(SpaceCh), Lit(W_struct), Star(SpaceCh), Opt(3),
                  One(IdentStart), Star(WordCh), Star(SpaceCh) >>
struct_pattern == struct_head \o typedef_tail

\* r'([A-Za-z_][\w \*\(\)]+?)\s+([A-Za-z_]\w*)\s*\((.*?)\)\s*' followed by closer
func_pattern(closer) ==
    << One(IdentStart), LazyPlus(RetCh), Plus(SpaceCh), One(IdentStart), Star(WordCh),
       Star(SpaceCh), One({"("}), LazyStarNot({}), One({")"}), Star(SpaceCh),
       One({closer}) >>
\* ... \{   with re.S
func_def_pattern == func_pattern("{")
\* ... ;    with re.S
proto_pattern == func_pattern(";")

(***************************************************************************)
(* parser_lib._parse_with_regex: the passes.  The derived 'comment' text   *)
(* of a record is a format of its other fields and is left out.            *)
(***************************************************************************)
NoBody == <<"n","o"," ","b","o","d","y">>

MacroRecord(text, m) ==
    [name  |-> Group(text, m, Len(macro_head) + 1, Len(macro_head) + 2),
     value |-> Strip(Group(text, m, Len(macro_head) + 4, Len(macro_head) + 4))]

MacroPass(text) ==
    LET ms == FindIter(macro_pattern, text, 0)
    IN  [k \in 1..Len(ms) |-> MacroRecord(text, ms[k])]

\* line.split('=')[0].strip().strip(',')
EnumMember(line) ==
    LET j == FirstIn(line, {"="}, 1)
    IN  StripChars(Strip(IF j = 0 THEN line ELSE SubSeq(line, 1, j - 1)), {","})

\* SelectSeq with an operator argument of a fixed shape
RECURSIVE NonBlank(_)
NonBlank(lines) ==
    IF lines = << >> THEN << >>
    ELSE IF Strip(Head(lines)) # << >> THEN << Head(lines) >> \o NonBlank(Tail(lines))
    ELSE NonBlank(Tail(lines))

RECURSIVE NonEmpty(_)
NonEmpty(xs) ==
    IF xs = << >> THEN << >>
    ELSE IF Head(xs) # << >> THEN << Head(xs) >> \o NonEmpty(Tail(xs))
    ELSE NonEmpty(Tail(xs))

EnumMembers(body) ==
    LET lines == NonBlank(SplitLines(body))
    IN  NonEmpty([k \in 1..Len(lines) |-> EnumMember(lines[k])])

TypeRecord(name, kind, members) ==
    [typedef_name |-> name, kind |-> kind, num_members |-> Len(members),
     members |-> members]

EnumRecord(text, m) ==
    TypeRecord(Group(text, m, Len(enum_head) + 5, Len(enum_head) + 6), "enum",
               EnumMembers(Group(text, m, Len(enum_head) + 2, Len(enum_head) + 2)))

EnumPass(text) ==
    LET ms == FindIter(enum_pattern, text, 0)
    IN  [k \in 1..Len(ms) |-> EnumRecord(text, ms[k])]

\* member name is last token before semicolon
StructMember(line) ==
    LET member == Strip(SubSeq(line, 1, FirstIn(line, {";"}, 1) - 1))
        j      == LastIn(member, {" "})
    IN  Strip(SubSeq(member, j + 1, Len(member)))

StartsWithSlashes(line) == Len(line) >= 2 /\ line[1] = "/" /\ line[2] = "/"

RECURSIVE StructMembers(_)
StructMembers(lines) ==
    IF lines = << >> THEN << >>
    ELSE LET line == Strip(Head(lines))
         IN  IF line = << >> \/ StartsWithSlashes(line) THEN StructMembers(Tail(lines))
             ELSE IF FirstIn(line, {";"}, 1) # 0
             THEN << StructMember(line) >> \o StructMembers(Tail(lines))
             ELSE StructMembers(Tail(lines))

StructRecord(text, m) ==
    TypeRecord(Group(text, m, Len(struct_head) + 5, Len(struct_head) + 6), "struct",
               StructMembers(SplitLines(Group(text, m, Len(struct_head) + 2,
                                              Len(struct_head) + 2))))

StructPass(text) ==
    LET ms == FindIter(struct_pattern, text, 0)
    IN  [k \in 1..Len(ms) |-> StructRecord(text, ms[k])]

\* one iteration of the brace-matching while loop; done records the break
BraceStep(text, st) ==
    LET ch == text[st.i + 1]
        d  == IF ch = "{" THEN st.depth + 1 ELSE IF ch = "}" THEN st.depth - 1 ELSE st.depth
    IN  IF ch = "}" /\ d = 0
        THEN [i |-> st.i, depth |-> d, body |-> Append(st.body, ch), done |-> TRUE]
        ELSE [i |-> st.i + 1, depth |-> d, body |-> Append(st.body, ch), done |-> FALSE]

\* at most n iterations of  while i < len(src_nocom)  from state st
RECURSIVE BraceLoop(_, _, _)
BraceLoop(text, n, st) ==
    IF n = 0 \/ st.done \/ ~(st.i < Len(text)) THEN st
    ELSE IF n = 1 THEN BraceStep(text, st)
    ELSE BraceLoop(text, n - n \div 2, BraceLoop(text, n \div 2, st))

\* naive brace matching from start_pos
BraceScan(text, start_pos) ==
    BraceLoop(text, Len(text), [i |-> start_pos, depth |-> 0, body |-> << >>, done |-> FALSE])

FunctionRecord(name, ret, args, body) ==
    [name |-> name, return_type |-> ret, num_args |-> Len(args), args |-> args,
     body |-> body]

DefRecord(text, m) ==
    LET body == Strip(BraceScan(text, m.end - 1).body)
    IN  FunctionRecord(Group(text, m, 4, 5),
                       JoinSp(SplitWords(Group(text, m, 1, 2))),
                       split_args(Group(text, m, 8, 8)),
                       IF body # << >> THEN body ELSE NoBody)

DefPass(text) ==
    LET ms == FindIter(func_def_pattern, text, 0)
    IN  [k \in 1..Len(ms) |-> DefRecord(text, ms[k])]

ProtoRecord(text, m) ==
    FunctionRecord(Group(text, m, 4, 5),
                   JoinSp(SplitWords(Group(text, m, 1, 2))),
                   split_args(Group(text, m, 8, 8)),
                   NoBody)

\* existing_names is computed once, before the loop
RECURSIVE ProtoLoop(_, _, _)
ProtoLoop(text, ms, existing_names) ==
    IF ms = << >> THEN << >>
    ELSE IF Group(text, Head(ms), 4, 5) \in existing_names
    THEN ProtoLoop(text, Tail(ms), existing_names)
    ELSE << ProtoRecord(text, Head(ms)) >> \o ProtoLoop(text, Tail(ms), existing_names)

ProtoPass(text, apis_so_far) ==
    apis_so_far
    \o ProtoLoop(text, FindIter(proto_pattern, text, 0),
                 {apis_so_far[k].name : k \in 1..Len(apis_so_far)})

Counts(ms, ts, as) ==
    [macros    |-> Len(ms),
     structs   |-> Cardinality({k \in 1..Len(ts) : ts[k].kind = "struct"}),
     enums     |-> Cardinality({k \in 1..Len(ts) : ts[k].kind = "enum"}),
     functions |-> Len(as)]

(***************************************************************************)
(* The state: the module flag, parse_all's and _parse_with_regex's locals, *)
(* and the arguments and results of the two utils helpers.                 *)
(***************************************************************************)
VARIABLES
    input,            \* the constructs the source text was written from
    src,              \* the text read_file returns
    CLANG_AVAILABLE,  \* parser_lib's module flag, set at import
    pc,               \* the position in parse_all / _parse_with_regex
    ran,              \* the strategies parse_all has called, in order
    src_nocom, macros, types, apis, counts,   \* the running strategy's locals
    method,           \* the strategy tag parse_all returns
    restripped,       \* strip_comments applied to src_nocom
    arg_text, args_out  \* split_args' argument and result

vars == << input, src, CLANG_AVAILABLE, pc, ran, src_nocom, macros, types, apis,
           counts, method, restripped, arg_text, args_out >>

(***************************************************************************)
(* Bounds of the inputs.                                                   *)
(***************************************************************************)
MaxConstructs == 3
MaxMembers == 2
MaxLen == 8
MaxArgLen == 6

(***************************************************************************)
(* Source texts: a text is written from a list of constructs, one per      *)
(* line.  A construct is [kind, id, n, nl, vals]: id numbers its name;     *)
(* a typedef has n members, one per line when nl and all on one line       *)
(* otherwise; an enum's enumerators carry '= value' when vals.             *)
(***************************************************************************)
DigitSeq == <<"1","2","3","4","5","6","7","8","9">>
FuncName(id)   == << "f", DigitSeq[id] >>
TypeName(id)   == << "T", DigitSeq[id] >>
MacroName(id)  == << "M", DigitSeq[id] >>
MemberName(i)  == << "m", DigitSeq[i] >>
EnumName(i)    == << "E", DigitSeq[i] >>

T_int     == <<"i","n","t"," ">>
T_params  == <<"(","i","n","t"," ","a",")">>
T_body    == <<"{"," ","i","f"," ","(","a",")"," ","{"," ","r","e","t","u","r","n"," ","a",";"," ","}">>
T_hash    == <<"#","d","e","f","i","n","e"," ">>
T_value   == <<" ","1","0","0">>

Sep(c) == IF c.nl THEN << "\n" >> ELSE << " " >>

RECURSIVE StructBody(_, _)
StructBody(c, i) ==
    IF i > c.n THEN << >>
    ELSE T_int \o MemberName(i) \o << ";" >> \o Sep(c) \o StructBody(c, i + 1)

RECURSIVE EnumBody(_, _)
EnumBody(c, i) ==
    IF i > c.n THEN << >>
    ELSE EnumName(i)
         \o (IF c.vals THEN << " ", "=", " ", DigitSeq[i] >> ELSE << >>)
         \o (IF i < c.n THEN << "," >> ELSE << >>)
         \o Sep(c) \o EnumBody(c, i + 1)

ConstructText(c) ==
    CASE c.kind = "proto"  -> T_int \o FuncName(c.id) \o T_params \o << ";" >>
      [] c.kind = "def"    -> T_int \o FuncName(c.id) \o T_params \o << " " >> \o T_body
                              \o << " ", "}" >>
      [] c.kind = "unbal"  -> T_int \o FuncName(c.id) \o T_params \o << " " >> \o T_body
      [] c.kind = "macro"  -> T_hash \o MacroName(c.id) \o T_value
      [] c.kind = "struct" -> W_typedef \o << " " >> \o W_struct \o << " ", "{" >> \o Sep(c)
                              \o StructBody(c, 1) \o << "}", " " >> \o TypeName(c.id)
                              \o << ";" >>
      [] c.kind = "enum"   -> W_typedef \o << " " >> \o W_enum \o << " ", "{" >> \o Sep(c)
                              \o EnumBody(c, 1) \o << "}", " " >> \o TypeName(c.id)
                              \o << ";" >>

RECURSIVE SourceText(_)
SourceText(cs) ==
    IF cs = << >> THEN << >>
    ELSE IF Len(cs) = 1 THEN ConstructText(cs[1])
    ELSE ConstructText(cs[1]) \o << "\n" >> \o SourceText(Tail(cs))

Construct(kind, id, n, nl, vals) ==
    [kind |-> kind, id |-> id, n |-> n, nl |-> nl, vals |-> vals]

\* functions whose names repeat: prototypes, definitions, unbalanced definitions
FuncConstructs ==
    { Construct(k, id, 0, FALSE, FALSE) : k \in {"proto", "def", "unbal"}, id \in 1..2 }

\* typedefs in every layout
TypeConstructs ==
    { Construct("struct", 1, n, nl, FALSE) : n \in 1..MaxMembers, nl \in BOOLEAN }
    \cup { Construct("enum", 1, n, nl, v) : n \in 1..MaxMembers, nl \in BOOLEAN,
                                           v \in BOOLEAN }

\* one construct of each kind, laid out one member per line, named after its place
MixedKinds == {"proto", "def", "macro", "struct", "enum"}
MixedInputs ==
    UNION { { [i \in 1..len |-> Construct(ks[i], i, MaxMembers, TRUE, FALSE)] :
              ks \in [1..len -> MixedKinds] } : len \in 1..MaxConstructs }

SeqsUpTo(S, n) == UNION { [1..len -> S] : len \in 0..n }

StripAlphabet == {"/", "*", "\n", "a"}
ArgAlphabet == {"a", " ", VT, ",", "(", ")"}
\* the example of the documentation: int a, int (*cb)(int, int)
ArgExample == <<"i","n","t"," ","a",","," ","i","n","t"," ","(","*","c","b",")",
                "(","i","n","t",","," ","i","n","t",")">>
VoidTexts == { Void, <<" ">> \o Void, <<"V","O","I","D">>, Void \o <<",">> }

NoResult == << >>

(***************************************************************************)
(* What _parse_with_clang hands back is decided by libclang, which is not  *)
(* part of the program: any of a few summaries.                            *)
(***************************************************************************)
ClangOutputs ==
    { [macros |-> << >>, types |-> << >>, apis |-> << >>],
      [macros |-> << [name |-> MacroName(1), value |-> << "1" >>] >>,
       types |-> << >>,
       apis |-> << FunctionRecord(FuncName(1), << "i", "n", "t" >>, << >>, NoBody) >>] }

(***************************************************************************)
(* Initial states.                                                         *)
(***************************************************************************)
Idle(text, cs, start) ==
    /\ input = cs
    /\ src = text
    /\ pc = start
    /\ ran = << >>
    /\ src_nocom = NoResult /\ macros = NoResult /\ types = NoResult
    /\ apis = NoResult /\ counts = NoResult
    /\ method = "none"
    /\ restripped = NoResult

NoArgs == arg_text = << >> /\ args_out = NoResult

\* parse_all on a file of mixed constructs
Init ==
    /\ \E cs \in MixedInputs : Idle(SourceText(cs), cs, "parse_all")
    /\ CLANG_AVAILABLE \in BOOLEAN
    /\ NoArgs

\* parse_all on a file of function prototypes and definitions
InitFuncs ==
    /\ \E cs \in SeqsUpTo(FuncConstructs, MaxConstructs) :
          cs # << >> /\ Idle(SourceText(cs), cs, "parse_all")
    /\ CLANG_AVAILABLE \in BOOLEAN
    /\ NoArgs

\* parse_all on a file holding one typedef
InitTypes ==
    /\ \E c \in TypeConstructs : Idle(SourceText(<< c >>), << c >>, "parse_all")
    /\ CLANG_AVAILABLE \in BOOLEAN
    /\ NoArgs

\* strip_comments on any short text
InitStrip ==
    /\ \E text \in SeqsUpTo(StripAlphabet, MaxLen) : Idle(text, << >>, "strip_comments")
    /\ CLANG_AVAILABLE = FALSE
    /\ NoArgs

\* split_args on any short argument text
InitArgs ==
    /\ Idle(<< >>, << >>, "split_args")
    /\ CLANG_AVAILABLE = FALSE
    /\ arg_text \in SeqsUpTo(ArgAlphabet, MaxArgLen) \cup VoidTexts \cup {ArgExample}
    /\ args_out = NoResult

(***************************************************************************)
(* parser_lib.parse_all                                                    *)
(***************************************************************************)
\* if CLANG_AVAILABLE: try: _parse_with_clang(path)
TryClang ==
    /\ pc = "parse_all" /\ CLANG_AVAILABLE
    /\ pc' = "clang"
    /\ ran' = Append(ran, "libclang")
    /\ UNCHANGED << input, src, CLANG_AVAILABLE, src_nocom, macros, types, apis, counts,
                    method, restripped, arg_text, args_out >>

\* the flag is off: straight to _parse_with_regex(path)
SkipClang ==
    /\ pc = "parse_all" /\ ~CLANG_AVAILABLE
    /\ pc' = "read_file"
    /\ ran' = Append(ran, "regex")
    /\ UNCHANGED << input, src, CLANG_AVAILABLE, src_nocom, macros, types, apis, counts,
                    method, restripped, arg_text, args_out >>

ClangTag == "libclang"
\* a variant that returns the libclang tag from the fallback as well
RegexTagCopied == "libclang"
RegexTag == "regex"

\* return macros, types, apis, counts, 'libclang'
ClangReturns ==
    /\ pc = "clang"
    /\ \E out \in ClangOutputs :
          /\ macros' = out.macros
          /\ types' = out.types
          /\ apis' = out.apis
          /\ counts' = Counts(out.macros, out.types, out.apis)
    /\ method' = ClangTag
    /\ pc' = "done"
    /\ UNCHANGED << input, src, CLANG_AVAILABLE, ran, src_nocom, restripped, arg_text,
                    args_out >>

\* except Exception: print the error, fall through to _parse_with_regex(path)
ClangRaises ==
    /\ pc = "clang"
    /\ pc' = "read_file"
    /\ ran' = Append(ran, "regex")
    /\ UNCHANGED << input, src, CLANG_AVAILABLE, src_nocom, macros, types, apis, counts,
                    method, restripped, arg_text, args_out >>

(***************************************************************************)
(* parser_lib._parse_with_regex, pass by pass                              *)
(***************************************************************************)
\* src = read_file(path); src_nocom = strip_comments(src)
ReadAndStrip ==
    /\ pc = "read_file"
    /\ src_nocom' = strip_comments(read_file(src))
    /\ macros' = << >> /\ types' = << >> /\ apis' = << >>
    /\ pc' = "macros"
    /\ UNCHANGED << input, src, CLANG_AVAILABLE, ran, counts, method, restripped,
                    arg_text, args_out >>

Macros ==
    /\ pc = "macros"
    /\ macros' = macros \o MacroPass(src_nocom)
    /\ pc' = "enums"
    /\ UNCHANGED << input, src, CLANG_AVAILABLE, ran, src_nocom, types, apis, counts,
                    method, restripped, arg_text, args_out >>

Enums ==
    /\ pc = "enums"
    /\ types' = types \o EnumPass(src_nocom)
    /\ pc' = "structs"
    /\ UNCHANGED << input, src, CLANG_AVAILABLE, ran, src_nocom, macros, apis, counts,
                    method, restripped, arg_text, args_out >>

\* a variant that lists the structs in front of the enums
StructsInFront ==
    /\ pc = "structs"
    /\ types' = StructPass(src_nocom) \o types
    /\ pc' = "defs"
    /\ UNCHANGED << input, src, CLANG_AVAILABLE, ran, src_nocom, macros, apis, counts,
                    method, restripped, arg_text, args_out >>

Structs ==
    /\ pc = "structs"
    /\ types' = types \o StructPass(src_nocom)
    /\ pc' = "defs"
    /\ UNCHANGED << input, src, CLANG_AVAILABLE, ran, src_nocom, macros, apis, counts,
                    method, restripped, arg_text, args_out >>

Definitions ==
    /\ pc = "defs"
    /\ apis' = apis \o DefPass(src_nocom)
    /\ pc' = "protos"
    /\ UNCHANGED << input, src, CLANG_AVAILABLE, ran, src_nocom, macros, types, counts,
                    method, restripped, arg_text, args_out >>

Prototypes ==
    /\ pc = "protos"
    /\ apis' = ProtoPass(src_nocom, apis)
    /\ pc' = "counts"
    /\ UNCHANGED << input, src, CLANG_AVAILABLE, ran, src_nocom, macros, types, counts,
                    method, restripped, arg_text, args_out >>

\* counts = {...}; return to parse_all, which returns ..., 'regex'
RegexReturns ==
    /\ pc = "counts"
    /\ counts' = Counts(macros, types, apis)
    /\ method' = RegexTag
    /\ pc' = "done"
    /\ UNCHANGED << input, src, CLANG_AVAILABLE, ran, src_nocom, macros, types, apis,
                    restripped, arg_text, args_out >>

Next ==
    \/ TryClang
    \/ SkipClang
    \/ ClangReturns
    \/ ClangRaises
    \/ ReadAndStrip
    \/ Macros
    \/ Enums
    \/ Structs
    \/ Definitions
    \/ Prototypes
    \/ RegexReturns

Spec == Init /\ [][Next]_vars
SpecFuncs == InitFuncs /\ [][Next]_vars
SpecTypes == InitTypes /\ [][Next]_vars

(***************************************************************************)
(* utils.strip_comments applied once, then to its own output               *)
(***************************************************************************)
StripOnce ==
    /\ pc = "strip_comments"
    /\ src_nocom' = strip_comments(src)
    /\ pc' = "strip_again"
    /\ UNCHANGED << input, src, CLANG_AVAILABLE, ran, macros, types, apis, counts, method,
                    restripped, arg_text, args_out >>

StripAgain ==
    /\ pc = "strip_again"
    /\ restripped' = strip_comments(src_nocom)
    /\ pc' = "stripped_twice"
    /\ UNCHANGED << input, src, CLANG_AVAILABLE, ran, src_nocom, macros, types, apis,
                    counts, method, arg_text, args_out >>

NextStrip == StripOnce \/ StripAgain

SpecStrip == InitStrip /\ [][NextStrip]_vars

(***************************************************************************)
(* utils.split_args                                                        *)
(***************************************************************************)
SplitArgs ==
    /\ pc = "split_args"
    /\ args_out' = split_args(arg_text)
    /\ pc' = "split_done"
    /\ UNCHANGED << input, src, CLANG_AVAILABLE, ran, src_nocom, macros, types, apis,
                    counts, method, restripped, arg_text >>

NextArgs == SplitArgs

SpecArgs == InitArgs /\ [][NextArgs]_vars

(***************************************************************************)
(* Notions the properties are stated with.  They are defined on the texts  *)
(* and the records, not with the operators that model the program.         *)
(***************************************************************************)
\* parse_all has returned what _parse_with_regex produced
RegexDone == pc = "done" /\ ran # << >> /\ ran[Len(ran)] = "regex"

Count(text, c) == Cardinality({i \in 1..Len(text) : text[i] = c})

\* the parenthesis depth in front of the i-th character
ParenDepth(text, i) ==
    Cardinality({j \in 1..(i - 1) : text[j] = "("})
    - Cardinality({j \in 1..(i - 1) : text[j] = ")"})

BalancedParens(text) ==
    /\ \A i \in 1..Len(text) : ParenDepth(text, i + 1) >= 0
    /\ ParenDepth(text, Len(text) + 1) = 0

\* the commas outside every parenthesis
TopCommas(text) == {i \in 1..Len(text) : text[i] = "," /\ ParenDepth(text, i) = 0}

\* the k-th piece of text between the cuts (k = 1 .. number of cuts + 1)
Piece(text, cuts, k) ==
    LET before == {i \in cuts : Cardinality({j \in cuts : j < i}) = k - 2}
        after  == {i \in cuts : Cardinality({j \in cuts : j < i}) = k - 1}
        from   == IF before = {} THEN 1 ELSE (CHOOSE i \in before : TRUE) + 1
        to     == IF after = {} THEN Len(text) ELSE (CHOOSE i \in after : TRUE) - 1
    IN  SubSeq(text, from, to)

IsBlank(text) == \A i \in 1..Len(text) : text[i] \in SpaceCh

\* a text that split_args does not answer with the empty list
ProperArgs(text) ==
    /\ ~IsBlank(text)
    /\ ToLower(Strip(text)) # Void
    /\ BalancedParens(text)

\* the position of the first occurrence of word in text, -1 if none
WordPos(text, word) ==
    LET hits == {p \in 0..(Len(text) - Len(word)) : LitAt(word, text, p)}
    IN  IF hits = {} THEN -1 ELSE CHOOSE p \in hits : \A q \in hits : p <= q

\* the names are listed in the order they first appear in the text
InSourceOrder(text, names) ==
    \A i, j \in 1..Len(names) :
        i < j => WordPos(text, names[i]) < WordPos(text, names[j])

NamesOf(records) == [k \in 1..Len(records) |-> records[k].name]
TypedefNamesOf(records) == [k \in 1..Len(records) |-> records[k].typedef_name]

HasLineComment(text) ==
    \E i \in 1..(Len(text) - 1) : text[i] = "/" /\ text[i + 1] = "/"

HasBlockComment(text) ==
    \E i, j \in 1..(Len(text) - 1) :
        /\ j >= i + 2
        /\ text[i] = "/" /\ text[i + 1] = "*"
        /\ text[j] = "*" /\ text[j + 1] = "/"

InputHas(kind, id) == \E i \in 1..Len(input) : input[i].kind = kind /\ input[i].id = id

RecordsNamed(name) == {k \in 1..Len(apis) : apis[k].name = name}

(***************************************************************************)
(* C1.  When the text holds both a prototype and a definition of a         *)
(* function name, the function list holds exactly one record of that name  *)
(* and its body is not "no body".                                          *)
(***************************************************************************)
C1_DefinitionWins ==
    RegexDone =>
        \A id \in 1..2 :
            InputHas("proto", id) /\ InputHas("def", id) =>
                /\ Cardinality(RecordsNamed(FuncName(id))) = 1
                /\ \A k \in RecordsNamed(FuncName(id)) : apis[k].body # NoBody

(***************************************************************************)
(* C2.  The function list never holds two records of the same name.        *)
(***************************************************************************)
C2_OneRecordPerName ==
    RegexDone =>
        \A i, j \in 1..Len(apis) : i # j => apis[i].name # apis[j].name

(***************************************************************************)
(* C3.  A typedef struct of N simple members yields a struct record with   *)
(* num_members = N and the members in order, in every layout.              *)
(***************************************************************************)
C3_StructMembers ==
    RegexDone /\ input[1].kind = "struct" =>
        types = << TypeRecord(TypeName(input[1].id), "struct",
                              [i \in 1..input[1].n |-> MemberName(i)]) >>

(***************************************************************************)
(* C4.  A typedef enum of N enumerators yields an enum record with         *)
(* num_members = N and the enumerators in order, in every layout, with or  *)
(* without explicit values.                                                *)
(***************************************************************************)
C4_EnumMembers ==
    RegexDone /\ input[1].kind = "enum" =>
        types = << TypeRecord(TypeName(input[1].id), "enum",
                              [i \in 1..input[1].n |-> EnumName(i)]) >>

(***************************************************************************)
(* C5.  A definition whose brace scan reaches the end of the text with the *)
(* depth still positive yields no function record.                         *)
(***************************************************************************)
UnclosedBodies ==
    { Strip(Slice(src_nocom, p, Len(src_nocom))) :
        p \in { q \in 0..(Len(src_nocom) - 1) :
                  /\ src_nocom[q + 1] = "{"
                  /\ \A e \in (q + 1)..Len(src_nocom) :
                        Count(Slice(src_nocom, q, e), "{")
                        > Count(Slice(src_nocom, q, e), "}") } }

C5_UnbalancedSkipped ==
    RegexDone => \A k \in 1..Len(apis) : apis[k].body \notin UnclosedBodies

(***************************************************************************)
(* C6.  Every body of a function record that has one holds as many opening *)
(* as closing braces.                                                      *)
(***************************************************************************)
C6_BodyBalanced ==
    RegexDone =>
        \A k \in 1..Len(apis) :
            apis[k].body # NoBody => Count(apis[k].body, "{") = Count(apis[k].body, "}")

(***************************************************************************)
(* C7.  As claimed: for an argument text that is not blank, not "void" and *)
(* has balanced parentheses, split_args returns as many records as there   *)
(* are commas outside parentheses, plus one.                               *)
(***************************************************************************)
C7_OnePerTopComma ==
    pc = "split_done" /\ ProperArgs(arg_text) =>
        Len(args_out) = Cardinality(TopCommas(Strip(arg_text))) + 1

(***************************************************************************)
(* C7, amended.  For such a text the records are, in order, the stripped   *)
(* pieces between the commas outside parentheses, except that a blank      *)
(* piece after the last such comma gives no record: their number is the    *)
(* number of those commas, plus one when the last piece is not blank.      *)
(***************************************************************************)
C7_PiecesBetweenTopCommas ==
    pc = "split_done" /\ ProperArgs(arg_text) =>
        LET text == Strip(arg_text)
            cuts == TopCommas(text)
            n    == Cardinality(cuts)
            last == Strip(Piece(text, cuts, n + 1))
        IN  /\ Len(args_out) = n + (IF last = << >> THEN 0 ELSE 1)
            /\ \A k \in 1..Len(args_out) :
                  args_out[k].raw = Strip(Piece(text, cuts, k))

\* the documentation's example: two records, the second holding the nested comma
C7_Witness ==
    /\ pc = "split_done"
    /\ arg_text = ArgExample
    /\ ProperArgs(arg_text)
    /\ Len(args_out) = 2
    /\ Count(args_out[2].raw, ",") = 1

(***************************************************************************)
(* C8.  As claimed: strip_comments applied to its own output changes       *)
(* nothing.                                                                *)
(***************************************************************************)
C8_Idempotent ==
    pc = "stripped_twice" => restripped = src_nocom

(***************************************************************************)
(* C8, amended.  The output of strip_comments holds no line comment, and   *)
(* stripping it again changes nothing unless it holds a block comment      *)
(* (one formed by the characters a removal left adjacent).                 *)
(***************************************************************************)
C8_IdempotentWithoutBlock ==
    pc = "stripped_twice" =>
        /\ ~HasLineComment(src_nocom)
        /\ ~HasBlockComment(src_nocom) => restripped = src_nocom

\* a text with a block and a line comment around code: both are removed, the
\* code and the line break stay, and a second stripping changes nothing
C8_Witness ==
    /\ pc = "stripped_twice"
    /\ HasBlockComment(src) /\ HasLineComment(src)
    /\ src_nocom = << "a", "\n" >>
    /\ restripped = src_nocom

(***************************************************************************)
(* C9.  parse_all calls the libclang strategy first exactly when it is     *)
(* available; when it is not, or when it raises, the regex strategy runs   *)
(* and parse_all returns normally; the tag returned names the strategy     *)
(* that ran last and produced the returned collections and counts.         *)
(***************************************************************************)
RegexAnswer ==
    LET t  == strip_comments(read_file(src))
        ms == MacroPass(t)
        ts == EnumPass(t) \o StructPass(t)
        as == ProtoPass(t, DefPass(t))
    IN  [macros |-> ms, types |-> ts, apis |-> as]

C9_FallbackAndTag ==
    /\ ran # << >> => (ran[1] = "libclang") = CLANG_AVAILABLE
    /\ pc = "done" =>
          /\ ran \in { << "libclang" >>, << "libclang", "regex" >>, << "regex" >> }
          /\ method = ran[Len(ran)]
          /\ counts = Counts(macros, types, apis)
          /\ method = "libclang" =>
                [macros |-> macros, types |-> types, apis |-> apis] \in ClangOutputs
          /\ method = "regex" =>
                [macros |-> macros, types |-> types, apis |-> apis] = RegexAnswer

\* libclang was tried and raised, and the regex strategy produced the answer
C9_Witness ==
    /\ pc = "done"
    /\ ran = << "libclang", "regex" >>
    /\ method = "regex"
    /\ Len(apis) > 0 /\ Len(types) > 0

(***************************************************************************)
(* C10.  As claimed: in each collection the records are in the order of    *)
(* their constructs in the source text.                                    *)
(***************************************************************************)
C10_SourceOrder ==
    RegexDone =>
        /\ InSourceOrder(src, NamesOf(macros))
        /\ InSourceOrder(src, TypedefNamesOf(types))
        /\ InSourceOrder(src, NamesOf(apis))

(***************************************************************************)
(* C10, amended.  The macros are in source order.  The types are the enum  *)
(* records in source order followed by the struct records in source order. *)
(* The functions are the records with a body in source order followed by   *)
(* the "no body" records in source order.                                  *)
(***************************************************************************)
C10_OrderWithinPasses ==
    RegexDone =>
        /\ InSourceOrder(src, NamesOf(macros))
        /\ \A i, j \in 1..Len(types) :
              i < j =>
                \/ types[i].kind = "enum" /\ types[j].kind = "struct"
                \/ /\ types[i].kind = types[j].kind
                   /\ WordPos(src, types[i].typedef_name)
                      < WordPos(src, types[j].typedef_name)
        /\ \A i, j \in 1..Len(apis) :
              i < j =>
                \/ apis[i].body # NoBody /\ apis[j].body = NoBody
                \/ /\ (apis[i].body = NoBody) = (apis[j].body = NoBody)
                   /\ WordPos(src, apis[i].name) < WordPos(src, apis[j].name)

\* a struct written before an enum and listed after it, and a function record
C10_Witness ==
    /\ RegexDone
    /\ Len(types) = 2 /\ types[1].kind = "enum" /\ types[2].kind = "struct"
    /\ WordPos(src, types[2].typedef_name) < WordPos(src, types[1].typedef_name)
    /\ Len(apis) = 1
====
